---------------------------- MODULE Spec2Model ----------------------------
(***************************************************************************)
(* A model of the HubSpot MCP server (src/src/mcp_server_hubspot/server.py) *)
(*                                                                         *)
(*   - convert_datetime_fields, the recursive temporal normaliser;         *)
(*   - HubSpotClient.get_company_activity, the two-stage activity fetch    *)
(*     and its per-type formatting of one engagement;                      *)
(*   - handle_call_tool / handle_read_resource, the dispatch boundary,     *)
(*     with the search-then-create flows of contacts and companies.        *)
(*                                                                         *)
(* Python values are tagged records [k |-> kind, v |-> payload]; a raised  *)
(* exception is a record of kind "raise".                                  *)
(***************************************************************************)
EXTENDS Integers, Sequences, FiniteSets, TLC

VARIABLES
    \* ---- the server (Spec) ----
    pc,                 \* position of the running handler
    tool,               \* name given to handle_call_tool / "read_resource"
    arguments,          \* the arguments mapping of the running invocation
    engagement_ids,     \* get_company_activity: ids collected from the links
    activities,         \* get_company_activity: summaries built so far
    reqs,               \* requests issued to the CRM by the running invocation,
                        \* each with the response it got
    outcome,            \* what the handler returned or raised
    crm_contacts,       \* the CRM's contact records, oldest first
    crm_companies,      \* the CRM's company records, oldest first
    created,            \* the searches whose create the CRM carried out, over
                        \* all invocations so far
    \* ---- the normaliser alone (SpecNorm) ----
    obj,                \* the value given to convert_datetime_fields
    once,               \* convert_datetime_fields(obj)
    twice,              \* convert_datetime_fields(once)
    tz_offset,          \* the local UTC offset now, in minutes
    \* ---- the formatting of one engagement alone (SpecFormat) ----
    engagement_response,\* the parsed body of one detail response
    formatted           \* the summary built from it, or the exception raised

vars == <<pc, tool, arguments, engagement_ids, activities, reqs, outcome,
          crm_contacts, crm_companies, created,
          obj, once, twice, tz_offset, engagement_response, formatted>>

serverVars == <<pc, tool, arguments, engagement_ids, activities, reqs, outcome,
                crm_contacts, crm_companies, created>>
normVars   == <<obj, once, twice, tz_offset>>
formatVars == <<engagement_response, formatted>>

---------------------------------------------------------------------------
(* Python values *)

PyNone      == [k |-> "none", v |-> 0]
PyStr(s)      == [k |-> "str", v |-> s]
PyInt(n)      == [k |-> "int", v |-> n]
PyList(s)     == [k |-> "list", v |-> s]
PyDict(f)     == [k |-> "dict", v |-> f]
DateTime(d) == [k |-> "datetime", v |-> d]
TzLocal     == [k |-> "tzlocal", v |-> 0]
Raise(cls, msg) == [k |-> "raise", v |-> [cls |-> cls, msg |-> msg]]

\* A value no handler produces: "not computed yet".
Unset == [k |-> "unset", v |-> 0]

EmptyDict == PyDict(<<>>)
EmptyList == PyList(<<>>)

IsDict(x)   == x.k = "dict"
IsList(x)   == x.k = "list"
IsStr(x)    == x.k = "str"
IsRaise(x)  == x.k = "raise"

Has(d, key) == key \in DOMAIN d.v

\* bool(x) as Python's `or` takes it.
Truthy(x) ==
    CASE x.k = "none" -> FALSE
      [] x.k = "str"  -> x.v # ""
      [] x.k = "int"  -> x.v # 0
      [] x.k = "list" -> Len(x.v) # 0
      [] x.k = "dict" -> DOMAIN x.v # {}
      [] OTHER        -> TRUE

\* type(x).__name__, as the interpreter's messages spell it.
TypeName(x) ==
    CASE x.k = "none" -> "NoneType"
      [] x.k = "str"  -> "str"
      [] x.k = "int"  -> "int"
      [] x.k = "list" -> "list"
      [] x.k = "dict" -> "dict"
      [] x.k = "datetime" -> "datetime.datetime"
      [] OTHER        -> "tzlocal"

\* What x.get(...) raises when x is no mapping.
NoGet(x) == Raise("AttributeError",
                  "'" \o TypeName(x) \o "' object has no attribute 'get'")

\* d.get(key, default) for a mapping d.
Get(d, key, default) == IF Has(d, key) THEN d.v[key] ELSE default

---------------------------------------------------------------------------
(* convert_datetime_fields *)

Digit(n) == <<"0", "1", "2", "3", "4", "5", "6", "7", "8", "9">>[n + 1]

RECURSIVE Join(_)
Join(chars) == IF chars = <<>> THEN ""
               ELSE Head(chars) \o Join(Tail(chars))

\* datetime.isoformat() of the midnight of a day of January 2024.
isoformat(d) ==
    "2024-01-" \o Digit(d \div 10) \o Digit(d % 10) \o "T00:00:00"

\* strftime('%z') of an offset in minutes: sign, two hour digits, two minute
\* digits, as a sequence of characters.
strftime_z(off) ==
    LET a == IF off < 0 THEN -off ELSE off
        h == a \div 60
        m == a % 60
    IN  << IF off < 0 THEN "-" ELSE "+",
           Digit(h \div 10), Digit(h % 10), Digit(m \div 10), Digit(m % 10) >>

\* f"UTC{offset[:3]}:{offset[3:]}"
FormatOffsetAs(offset) ==
    "UTC" \o Join(SubSeq(offset, 1, 3)) \o ":" \o Join(SubSeq(offset, 4, Len(offset)))

\* The tzlocal branch with the plausible slip of returning datetime.now(tzlocal())
\* itself, the strftime and the f-string forgotten.
TzLocalBranch_Unformatted(now) == DateTime(1)

\* The tzlocal branch: the offset is the one in force now, at the call.
TzLocalBranch(now) == PyStr(FormatOffsetAs(strftime_z(now)))

\* The datetime branch.
DateTimeBranch(x) == PyStr(isoformat(x.v))

RECURSIVE convert_datetime_fields(_, _)

\* {k: convert_datetime_fields(v) for k, v in obj.items()}, with the plausible
\* slip of skipping the entries whose value is None.
DictBranch_SkipNone(x, now) ==
    PyDict([key \in {c \in DOMAIN x.v : x.v[c] # PyNone} |->
                convert_datetime_fields(x.v[key], now)])

\* {k: convert_datetime_fields(v) for k, v in obj.items()}
DictBranch(x, now) ==
    PyDict([key \in DOMAIN x.v |-> convert_datetime_fields(x.v[key], now)])

\* [convert_datetime_fields(item) for item in obj]
ListBranch(x, now) ==
    PyList([i \in 1..Len(x.v) |-> convert_datetime_fields(x.v[i], now)])

convert_datetime_fields(x, now) ==
    CASE x.k = "dict"     -> DictBranch(x, now)
      [] x.k = "list"     -> ListBranch(x, now)
      [] x.k = "datetime" -> DateTimeBranch(x)
      [] x.k = "tzlocal"  -> TzLocalBranch(now)
      [] OTHER            -> x

---------------------------------------------------------------------------
(* get_company_activity: the formatting of one engagement (the loop body) *)

\* The shared fields, with the plausible slip of one default for all eight:
\* associations read with .get("associations"), so that a missing key gives None.
SharedFields_NoneDefault(engagement_data, response) ==
    [ id           |-> Get(engagement_data, "id", PyNone),
      type         |-> Get(engagement_data, "type", PyNone),
      created_at   |-> Get(engagement_data, "createdAt", PyNone),
      last_updated |-> Get(engagement_data, "lastUpdated", PyNone),
      created_by   |-> Get(engagement_data, "createdBy", PyNone),
      modified_by  |-> Get(engagement_data, "modifiedBy", PyNone),
      timestamp    |-> Get(engagement_data, "timestamp", PyNone),
      associations |-> Get(response, "associations", PyNone) ]

\* formatted_engagement = {...}: .get(key) gives None for a missing key,
\* .get("associations", {}) an empty mapping.
SharedFields(engagement_data, response) ==
    [ id           |-> Get(engagement_data, "id", PyNone),
      type         |-> Get(engagement_data, "type", PyNone),
      created_at   |-> Get(engagement_data, "createdAt", PyNone),
      last_updated |-> Get(engagement_data, "lastUpdated", PyNone),
      created_by   |-> Get(engagement_data, "createdBy", PyNone),
      modified_by  |-> Get(engagement_data, "modifiedBy", PyNone),
      timestamp    |-> Get(engagement_data, "timestamp", PyNone),
      associations |-> Get(response, "associations", EmptyDict) ]

\* One recipient entry: {"raw": ..., "email": ..., "firstName": ..., "lastName": ...}
RecipientRef(recipient) ==
    PyDict([ raw       |-> Get(recipient, "raw", PyStr("")),
             email     |-> Get(recipient, "email", PyStr("")),
             firstName |-> Get(recipient, "firstName", PyStr("")),
             lastName  |-> Get(recipient, "lastName", PyStr("")) ])

\* [{...} for recipient in metadata.get(key, [])]: the list of recipient
\* entries, or what the comprehension raises. Iterating a string gives its
\* characters and iterating a mapping its keys: strings, which have no .get.
Recipients(metadata, key) ==
    LET src == Get(metadata, key, EmptyList) IN
    CASE src.k = "list" ->
            IF \E i \in 1..Len(src.v) : ~IsDict(src.v[i])
            THEN NoGet(src.v[CHOOSE i \in 1..Len(src.v) :
                               /\ ~IsDict(src.v[i])
                               /\ \A j \in 1..(i - 1) : IsDict(src.v[j])])
            ELSE PyList([i \in 1..Len(src.v) |-> RecipientRef(src.v[i])])
      [] src.k = "str" ->
            IF src.v = "" THEN EmptyList ELSE NoGet(src)
      [] src.k = "dict" ->
            IF DOMAIN src.v = {} THEN EmptyList ELSE NoGet(PyStr("key"))
      [] OTHER ->
            Raise("TypeError", "'" \o TypeName(src) \o "' object is not iterable")

\* "body": metadata.get("html", "") or metadata.get("text", ""): the plausible
\* slip of preferring html.
EmailBody_HtmlFirst(metadata) ==
    IF Truthy(Get(metadata, "html", PyStr("")))
    THEN Get(metadata, "html", PyStr(""))
    ELSE Get(metadata, "text", PyStr(""))

\* "body": metadata.get("text", "") or metadata.get("html", "")
EmailBody(metadata) ==
    IF Truthy(Get(metadata, "text", PyStr("")))
    THEN Get(metadata, "text", PyStr(""))
    ELSE Get(metadata, "html", PyStr(""))

\* The EMAIL branch; the entries are evaluated in source order, so the first
\* ill-typed one decides what is raised.
EmailContent(metadata) ==
    LET from   == Get(metadata, "from", EmptyDict)
        to     == Recipients(metadata, "to")
        cc     == Recipients(metadata, "cc")
        bcc    == Recipients(metadata, "bcc")
        sender == Get(metadata, "sender", EmptyDict)
    IN  IF ~IsDict(from) THEN NoGet(from)
        ELSE IF IsRaise(to) THEN to
        ELSE IF IsRaise(cc) THEN cc
        ELSE IF IsRaise(bcc) THEN bcc
        ELSE IF ~IsDict(sender) THEN NoGet(sender)
        ELSE PyDict(
          [ subject |-> Get(metadata, "subject", PyStr("")),
            from    |-> RecipientRef(from),
            to      |-> to,
            cc      |-> cc,
            bcc     |-> bcc,
            sender  |-> PyDict([email |-> Get(sender, "email", PyStr(""))]),
            body    |-> EmailBody(metadata) ])

\* The TASK branch with the plausible slip of copying only the keys the
\* metadata holds.
TaskContent_OnlyPresent(metadata) ==
    LET all == [ subject         |-> Get(metadata, "subject", PyStr("")),
                 body            |-> Get(metadata, "body", PyStr("")),
                 status          |-> Get(metadata, "status", PyStr("")),
                 for_object_type |-> Get(metadata, "forObjectType", PyStr("")) ]
        src == [ subject |-> "subject", body |-> "body", status |-> "status",
                 for_object_type |-> "forObjectType" ]
    IN  PyDict([c \in {d \in DOMAIN all : Has(metadata, src[d])} |-> all[c]])

\* The TASK branch.
TaskContent(metadata) ==
    PyDict([ subject         |-> Get(metadata, "subject", PyStr("")),
             body            |-> Get(metadata, "body", PyStr("")),
             status          |-> Get(metadata, "status", PyStr("")),
             for_object_type |-> Get(metadata, "forObjectType", PyStr("")) ])

\* The MEETING branch.
MeetingContent(metadata) ==
    PyDict([ title          |-> Get(metadata, "title", PyStr("")),
             body           |-> Get(metadata, "body", PyStr("")),
             start_time     |-> Get(metadata, "startTime", PyNone),
             end_time       |-> Get(metadata, "endTime", PyNone),
             internal_notes |-> Get(metadata, "internalMeetingNotes", PyStr("")) ])

\* The CALL branch.
CallContent(metadata) ==
    PyDict([ body        |-> Get(metadata, "body", PyStr("")),
             from_number |-> Get(metadata, "fromNumber", PyStr("")),
             to_number   |-> Get(metadata, "toNumber", PyStr("")),
             duration_ms |-> Get(metadata, "durationMilliseconds", PyNone),
             status      |-> Get(metadata, "status", PyStr("")),
             disposition |-> Get(metadata, "disposition", PyStr("")) ])

\* The type values the if/elif chain knows.
KnownTypes == { PyStr("NOTE"), PyStr("EMAIL"), PyStr("TASK"),
                PyStr("MEETING"), PyStr("CALL") }

\* The body of the loop with the plausible slip of reading the engagement as
\* engagement_response.get('engagement') or {}, so that a body without an
\* engagement is summarised instead of raising.
FormatEngagement_OrDefault(response) ==
    IF ~IsDict(response) THEN NoGet(response)
    ELSE
    LET given           == Get(response, "engagement", EmptyDict)
        engagement_data == IF Truthy(given) THEN given ELSE EmptyDict
        metadata        == Get(response, "metadata", EmptyDict)
    IN  IF ~IsDict(engagement_data) THEN NoGet(engagement_data)
        ELSE
        LET shared == SharedFields(engagement_data, response)
            type   == Get(engagement_data, "type", PyNone)
        IN  IF type \notin KnownTypes THEN PyDict(shared)
            ELSE IF ~IsDict(metadata) THEN NoGet(metadata)
            ELSE
            LET content ==
                  IF type = PyStr("NOTE") THEN Get(metadata, "body", PyStr(""))
                  ELSE IF type = PyStr("EMAIL") THEN EmailContent(metadata)
                  ELSE IF type = PyStr("TASK") THEN TaskContent(metadata)
                  ELSE IF type = PyStr("MEETING") THEN MeetingContent(metadata)
                  ELSE CallContent(metadata)
            IN  IF IsRaise(content) THEN content
                ELSE PyDict(shared @@ ("content" :> content))

\* The body of the loop over engagement_ids, from the parsed detail response
\* to the summary appended to activities, or the exception raised on the way.
FormatEngagement(response) ==
    IF ~IsDict(response) THEN NoGet(response)
    ELSE
    LET engagement_data == Get(response, "engagement", EmptyDict)
        metadata        == Get(response, "metadata", EmptyDict)
    IN  IF ~IsDict(engagement_data) THEN NoGet(engagement_data)
        ELSE
        LET shared == SharedFields(engagement_data, response)
            type   == Get(engagement_data, "type", PyNone)
        IN  IF type \notin KnownTypes THEN PyDict(shared)
            ELSE IF ~IsDict(metadata) THEN NoGet(metadata)
            ELSE
            LET content ==
                  IF type = PyStr("NOTE") THEN Get(metadata, "body", PyStr(""))
                  ELSE IF type = PyStr("EMAIL") THEN EmailContent(metadata)
                  ELSE IF type = PyStr("TASK") THEN TaskContent(metadata)
                  ELSE IF type = PyStr("MEETING") THEN MeetingContent(metadata)
                  ELSE CallContent(metadata)
            IN  IF IsRaise(content) THEN content
                ELSE PyDict(shared @@ ("content" :> content))

---------------------------------------------------------------------------
(* The normaliser alone: a nested value is built, normalised, and the    *)
(* result normalised again, while the local offset may change.           *)

MaxDepth == 2

\* The local offsets the clock may be at, in minutes east of UTC.
Offsets == {-300, 0, 330}

NormLeaves == { PyNone, PyStr("x"), PyStr("2024-01-01T00:00:00"), PyInt(7),
                DateTime(1), DateTime(15), TzLocal }
PadLeaves  == { PyNone, DateTime(1), TzLocal }
NormKeys   == { "createdAt", "tz" }

RECURSIVE Depth(_)
Depth(x) ==
    CASE x.k = "dict" ->
            IF DOMAIN x.v = {} THEN 1
            ELSE 1 + (CHOOSE m \in {Depth(x.v[c]) : c \in DOMAIN x.v} :
                         \A c \in DOMAIN x.v : Depth(x.v[c]) <= m)
      [] x.k = "list" ->
            IF Len(x.v) = 0 THEN 1
            ELSE 1 + (CHOOSE m \in {Depth(x.v[i]) : i \in 1..Len(x.v)} :
                         \A i \in 1..Len(x.v) : Depth(x.v[i]) <= m)
      [] OTHER -> 0

ServerIdle ==
    /\ pc = "idle" /\ tool = "" /\ arguments = PyNone
    /\ engagement_ids = <<>> /\ activities = <<>> /\ reqs = <<>>
    /\ outcome = Unset
    /\ crm_contacts = <<>> /\ crm_companies = <<>> /\ created = {}
NormIdle ==
    obj = PyNone /\ once = Unset /\ twice = Unset /\ tz_offset = 0
FormatIdle ==
    engagement_response = PyNone /\ formatted = Unset

InitNorm ==
    /\ obj \in NormLeaves
    /\ once = Unset /\ twice = Unset
    /\ tz_offset \in Offsets
    /\ ServerIdle /\ FormatIdle

\* The value becomes an element of a list, alone or beside one other element.
WrapList ==
    /\ once = Unset /\ Depth(obj) < MaxDepth
    /\ \E s \in {<<obj>>} \cup {<<l, obj>> : l \in PadLeaves}
                          \cup {<<obj, l>> : l \in PadLeaves} :
          obj' = PyList(s)
    /\ UNCHANGED <<once, twice, tz_offset, serverVars, formatVars>>

\* The value becomes an entry of a mapping, alone or beside one other entry.
WrapDict ==
    /\ once = Unset /\ Depth(obj) < MaxDepth
    /\ \E key \in NormKeys :
          \/ obj' = PyDict(key :> obj)
          \/ \E other \in NormKeys \ {key}, l \in PadLeaves :
                obj' = PyDict(key :> obj @@ other :> l)
    /\ UNCHANGED <<once, twice, tz_offset, serverVars, formatVars>>

\* The local offset changes (a DST switch) between two calls.
ClockChange ==
    /\ twice = Unset
    /\ \E o \in Offsets \ {tz_offset} : tz_offset' = o
    /\ UNCHANGED <<obj, once, twice, serverVars, formatVars>>

Normalize ==
    /\ once = Unset
    /\ once' = convert_datetime_fields(obj, tz_offset)
    /\ UNCHANGED <<obj, twice, tz_offset, serverVars, formatVars>>

NormalizeAgain ==
    /\ once # Unset /\ twice = Unset
    /\ twice' = convert_datetime_fields(once, tz_offset)
    /\ UNCHANGED <<obj, once, tz_offset, serverVars, formatVars>>

NextNorm == WrapList \/ WrapDict \/ ClockChange \/ Normalize \/ NormalizeAgain

SpecNorm == InitNorm /\ [][NextNorm]_vars

---------------------------------------------------------------------------
(* The formatting of one engagement alone: a parsed detail response is    *)
(* drawn from the shapes a JSON body can take, and the loop body formats  *)
(* it.                                                                    *)

\* A mapping restricted to some of its keys.
Restrict(f, keys) == [c \in (DOMAIN f) \cap keys |-> f[c]]

\* The values engagement.type is drawn from; "absent" is a missing key.
TypeValues == KnownTypes \cup { PyStr("note"), PyStr("SMS"), PyNone }

\* The engagement section with every core field set.
FullEngagement ==
    [ id          |-> PyStr("e1"),
      createdAt   |-> PyStr("2024-01-01T00:00:00Z"),
      lastUpdated |-> PyInt(1704),
      createdBy   |-> PyInt(42),
      modifiedBy  |-> PyInt(43),
      timestamp   |-> PyInt(1703) ]

\* The key sets of the engagement section: all six, none, or all but one.
EngagementKeySets ==
    { DOMAIN FullEngagement, {} } \cup
    { DOMAIN FullEngagement \ {c} : c \in DOMAIN FullEngagement }

EngagementSections ==
    { PyDict(Restrict(FullEngagement, ks)) : ks \in EngagementKeySets } \cup
    { PyDict(Restrict(FullEngagement, ks) @@ ("type" :> t)) :
         ks \in EngagementKeySets, t \in TypeValues }

Recipient1 == PyDict([ raw |-> PyStr("Ada <ada@x.io>"), email |-> PyStr("ada@x.io"),
                       firstName |-> PyStr("Ada"), lastName |-> PyStr("L") ])
Recipient2 == PyDict([ email |-> PyStr("bob@x.io") ])

\* A metadata section holding every key any branch reads.
FullMetadata ==
    [ body |-> PyStr("hello"), subject |-> PyStr("Re: hi"),
      from |-> Recipient1, to |-> PyList(<<Recipient2, Recipient1>>),
      cc |-> PyList(<<Recipient1>>), bcc |-> EmptyList,
      sender |-> PyDict([email |-> PyStr("s@x.io")]),
      text |-> PyStr("plain"), html |-> PyStr("<p>rich</p>"),
      status |-> PyStr("COMPLETED"), forObjectType |-> PyStr("CONTACT"),
      title |-> PyStr("Sync"), startTime |-> PyInt(1705), endTime |-> PyInt(1706),
      internalMeetingNotes |-> PyStr("notes"),
      fromNumber |-> PyStr("+1"), toNumber |-> PyStr("+2"),
      durationMilliseconds |-> PyInt(60000), disposition |-> PyStr("connected") ]

\* What a text or html entry may hold; "absent" is a missing key.
BodyValues == { PyNone, PyStr(""), PyStr("T"), PyStr("<p>H</p>") }

TextHtmlMetadata ==
    { PyDict(<<>>) } \cup
    { PyDict("text" :> t) : t \in BodyValues } \cup
    { PyDict("html" :> h) : h \in BodyValues } \cup
    { PyDict(("text" :> t) @@ ("html" :> h)) : t \in BodyValues, h \in BodyValues }

\* Metadata sections with an entry of an unexpected JSON type.
OddMetadata ==
    { PyDict("body" :> PyNone),
      PyDict("from" :> PyNone),
      PyDict("to" :> PyNone),
      PyDict("to" :> PyList(<<Recipient1, PyStr("ada@x.io")>>)),
      PyDict(("to" :> PyStr("")) @@ ("cc" :> EmptyDict)),
      PyDict("bcc" :> PyStr("ada@x.io")),
      PyDict("sender" :> PyStr("s@x.io")) }

MetadataSections ==
    { PyDict(FullMetadata) } \cup TextHtmlMetadata \cup OddMetadata
       \cup { PyNone, EmptyList }

AssociationsSections ==
    { PyDict([contactIds |-> PyList(<<PyInt(7)>>), companyIds |-> EmptyList]),
      EmptyDict, PyNone }

\* An optional entry: the mappings with and without key.
Opt(key, values) == { <<>> } \cup { key :> x : x \in values }

\* The parsed bodies a detail response can have.
DetailBodies ==
    { PyNone, EmptyList, PyStr("Not Found") } \cup
    { PyDict(e @@ m @@ a) :
         e \in Opt("engagement", EngagementSections \cup {PyNone}),
         m \in Opt("metadata", MetadataSections),
         a \in Opt("associations", AssociationsSections) }

InitFormat ==
    /\ engagement_response \in DetailBodies
    /\ formatted = Unset
    /\ ServerIdle /\ NormIdle

\* One pass of the loop body on the response.
FormatOne ==
    /\ formatted = Unset
    /\ formatted' = FormatEngagement(engagement_response)
    /\ UNCHANGED <<engagement_response, serverVars, normVars>>

NextFormat == FormatOne

SpecFormat == InitFormat /\ [][NextFormat]_vars

---------------------------------------------------------------------------
(* The server: texts, exceptions and the CRM it talks to *)

\* json.dumps(x): the JSON text that denotes x.
json_dumps(x) == [k |-> "json", v |-> x]

\* str(x) of a mapping: the text of its repr.
str_of(x) == [k |-> "repr", v |-> x]

\* f"{prefix}{x}" for a string prefix and a text x.
fstring(prefix, x) == [k |-> "fstr", v |-> <<prefix, x>>]

\* types.TextContent(type="text", text=...)
TextContent(text) == [type |-> "text", text |-> text]

\* What a handler hands back: a returned value, or Raise(cls, msg).
Return(x) == [k |-> "return", v |-> x]

\* json.dumps({"error": str(e)})
JsonError(e) == json_dumps(PyDict([error |-> PyStr(e.v.msg)]))

\* The exception classes. ApiException, as server.py imports it, is the one of
\* hubspot.crm.contacts; the companies and associations clients raise classes
\* of their own, which only `except Exception` catches.
ContactsApiException     == "hubspot.crm.contacts.exceptions.ApiException"
CompaniesApiException    == "hubspot.crm.companies.exceptions.ApiException"
AssociationsApiException == "hubspot.crm.associations.v4.exceptions.ApiException"

\* What the CRM raises on a request of each client.
ContactsFailures ==
    { Raise(ContactsApiException, "(429) Too Many Requests"),
      Raise("ConnectionError", "Connection refused") }
CompaniesFailures ==
    { Raise(CompaniesApiException, "(403) Forbidden"),
      Raise("ConnectionError", "Connection refused") }
AssociationsFailures ==
    { Raise(AssociationsApiException, "(404) Not Found"),
      Raise("ConnectionError", "Connection refused") }
\* api_request(...) raising, and .json() raising on a body that is no JSON.
DetailFailures ==
    { Raise("ConnectionError", "Connection refused"),
      Raise("JSONDecodeError", "Expecting value: line 1 column 1 (char 0)") }

\* record.to_dict() of a CRM record: the timestamps are datetime objects.
to_dict(record) ==
    PyDict([ id         |-> PyStr(record.id),
             properties |-> PyDict(record.properties),
             created_at |-> DateTime(1),
             updated_at |-> DateTime(15),
             archived   |-> PyInt(0) ])

\* The CRM's search: the records every filter (propertyName EQ value) matches,
\* oldest first, and their number.
Matches(record, filters) ==
    \A i \in 1..Len(filters) :
        /\ filters[i].propertyName \in DOMAIN record.properties
        /\ record.properties[filters[i].propertyName] = filters[i].value

SelectMatching(store, filters) ==
    LET Test(r) == Matches(r, filters) IN SelectSeq(store, Test)

SearchResponse(store, filters) ==
    LET found == SelectMatching(store, filters)
    IN  [k |-> "found", v |-> [total |-> Len(found), results |-> found]]

\* The answer of get_all: the records of the store.
Records(store) == [k |-> "records", v |-> store]

\* The CRM's create: the record it stores and returns.
NewRecord(store, properties) ==
    [id |-> Digit(Len(store) + 1), properties |-> properties]

\* A request of the running invocation, with the response it got (Unset while
\* the handler waits for it).
Request(op, arg) == [k |-> "request", op |-> op, arg |-> arg, resp |-> Unset]

Pending == Len(reqs) > 0 /\ reqs[Len(reqs)].resp = Unset
PendingOp == reqs[Len(reqs)].op
Answered(resp) == [reqs EXCEPT ![Len(reqs)].resp = resp]

---------------------------------------------------------------------------
(* HubSpotClient: get_contacts, get_companies, get_company_activity *)

\* limit=500 of the association page request.
AssocLimit == 500

\* The try/except of get_company_activity with the plausible slip of catching
\* ApiException alone.
ActivityExcept_ApiOnly(r) ==
    IF IsRaise(r) /\ r.v.cls = ContactsApiException THEN JsonError(r) ELSE r

\* The try/except of get_contacts, get_companies and get_company_activity:
\* both clauses return json.dumps({"error": str(e)}).
ActivityExcept(r) == IF IsRaise(r) THEN JsonError(r) ELSE r

\* get_contacts / get_companies from the response of get_all: the records as
\* mappings, normalised and serialised, or the error object.
GetAllResult(resp, now) ==
    IF IsRaise(resp) THEN ActivityExcept(resp)
    ELSE json_dumps(convert_datetime_fields(
            PyList([i \in 1..Len(resp.v) |-> to_dict(resp.v[i])]), now))

\* The association request with the plausible slip of leaving the page size
\* at the API's default.
GetPageRequest_DefaultLimit(company_id) ==
    Request("associations.get_page",
            [ object_type |-> "companies", object_id |-> company_id,
              to_object_type |-> "engagements", limit |-> 100 ])

\* The association request of get_company_activity.
GetPageRequest(company_id) ==
    Request("associations.get_page",
            [ object_type |-> "companies", object_id |-> company_id,
              to_object_type |-> "engagements", limit |-> AssocLimit ])

\* The detail request of one engagement.
DetailRequest(engagement_id) ==
    Request("api_request",
            [ method |-> "GET",
              path |-> "/engagements/v1/engagements/" \o engagement_id ])

\* Collecting the ids with the plausible slip of skipping an id already seen.
ExtractIds_Dedup(page) ==
    IF ~page.has_results THEN EmptyList
    ELSE IF ~IsList(page.results)
         THEN Raise("TypeError",
                    "'" \o TypeName(page.results) \o "' object is not iterable")
    ELSE LET ids == [i \in 1..Len(page.results.v) |-> page.results.v[i].to_object_id]
             First(i) == \A j \in 1..(i - 1) : ids[j] # ids[i]
             RECURSIVE Keep(_)
             Keep(i) == IF i > Len(ids) THEN <<>>
                        ELSE (IF First(i) THEN <<ids[i]>> ELSE <<>>) \o Keep(i + 1)
         IN  PyList(Keep(1))

\* Collecting the ids with the plausible slip of reading .results without the
\* hasattr guard.
ExtractIds_NoHasattr(page) ==
    IF ~page.has_results
    THEN Raise("AttributeError", "'Response' object has no attribute 'results'")
    ELSE IF ~IsList(page.results)
         THEN Raise("TypeError",
                    "'" \o TypeName(page.results) \o "' object is not iterable")
    ELSE PyList([i \in 1..Len(page.results.v) |-> page.results.v[i].to_object_id])

\* engagement_ids from the page: empty when the response has no results
\* attribute, else the to_object_id of every link, in order; iterating a
\* results attribute that is no list raises.
ExtractIds(page) ==
    IF ~page.has_results THEN EmptyList
    ELSE IF ~IsList(page.results)
         THEN Raise("TypeError",
                    "'" \o TypeName(page.results) \o "' object is not iterable")
    ELSE PyList([i \in 1..Len(page.results.v) |-> page.results.v[i].to_object_id])

\* convert_datetime_fields(activities), then json.dumps.
FinishActivity(acts, now) ==
    json_dumps(convert_datetime_fields(PyList(acts), now))

---------------------------------------------------------------------------
(* handle_call_tool and handle_read_resource *)

\* The outer try/except with the plausible slip of having no catch-all clause.
CallToolExcept_ApiOnly(r) ==
    IF IsRaise(r) /\ r.v.cls = ContactsApiException
    THEN Return(<<TextContent(PyStr("HubSpot API error: " \o r.v.msg))>>)
    ELSE r

\* The outer try/except of handle_call_tool.
CallToolExcept(r) ==
    IF ~IsRaise(r) THEN r
    ELSE IF r.v.cls = ContactsApiException
         THEN Return(<<TextContent(PyStr("HubSpot API error: " \o r.v.msg))>>)
         ELSE Return(<<TextContent(PyStr("Error: " \o r.v.msg))>>)

\* The inner try/except of the two create branches: ApiException alone.
CreateExcept(r) ==
    IF IsRaise(r) /\ r.v.cls = ContactsApiException
    THEN Return(<<TextContent(PyStr("HubSpot API error: " \o r.v.msg))>>)
    ELSE r

Filter(name, value) == [propertyName |-> name, operator |-> "EQ", value |-> value]

\* hubspot_create_contact up to the search request.
CreateContactStart(args) ==
    IF ~Truthy(args)
    THEN Raise("ValueError", "Missing arguments for create_contact")
    ELSE IF ~Has(args, "firstname") THEN Raise("KeyError", "'firstname'")
    ELSE IF ~Has(args, "lastname") THEN Raise("KeyError", "'lastname'")
    ELSE LET company == Get(Get(args, "properties", EmptyDict), "company", PyNone)
         IN  Request("contacts.search",
                     << Filter("firstname", args.v["firstname"]),
                        Filter("lastname", args.v["lastname"]) >>
                     \o (IF Truthy(company) THEN <<Filter("company", company)>>
                         ELSE <<>>))

\* hubspot_create_company up to the search request.
CreateCompanyStart(args) ==
    IF ~Truthy(args)
    THEN Raise("ValueError", "Missing arguments for create_company")
    ELSE IF ~Has(args, "name") THEN Raise("KeyError", "'name'")
    ELSE Request("companies.search", << Filter("name", args.v["name"]) >>)

\* hubspot_get_company_activity up to the association request.
ActivityStart(args) ==
    IF ~Truthy(args)
    THEN Raise("ValueError", "Missing arguments for get_company_activity")
    ELSE IF ~Has(args, "company_id") THEN Raise("KeyError", "'company_id'")
    ELSE GetPageRequest(args.v["company_id"])

\* properties.update(extra) with the plausible slip of keeping the entries
\* already set.
Update_KeepOld(properties, extra) ==
    [c \in DOMAIN properties \cup DOMAIN extra |->
        IF c \in DOMAIN properties THEN properties[c] ELSE extra[c]]

\* properties.update(extra): the entries of extra replace those of properties.
Update(properties, extra) ==
    [c \in DOMAIN properties \cup DOMAIN extra |->
        IF c \in DOMAIN extra THEN extra[c] ELSE properties[c]]

\* The properties hubspot_create_contact creates with.
ContactProperties(args) ==
    LET required  == [firstname |-> args.v["firstname"], lastname |-> args.v["lastname"]]
        withEmail == IF Has(args, "email")
                     THEN Update(required, [email |-> args.v["email"]])
                     ELSE required
    IN  IF Has(args, "properties")
        THEN Update(withEmail, args.v["properties"].v)
        ELSE withEmail

\* The properties hubspot_create_company creates with.
CompanyProperties(args) ==
    LET required == [name |-> args.v["name"]]
    IN  IF Has(args, "properties")
        THEN Update(required, args.v["properties"].v)
        ELSE required

\* The names handle_call_tool dispatches on.
GetContacts        == "hubspot_get_contacts"
CreateContact      == "hubspot_create_contact"
GetCompanies       == "hubspot_get_companies"
CreateCompany      == "hubspot_create_company"
GetCompanyActivity == "hubspot_get_company_activity"

\* handle_call_tool up to its first request to the CRM, or to the exception
\* raised before any.
FirstStep(name, args) ==
    IF name = GetContacts THEN Request("contacts.get_all", PyNone)
    ELSE IF name = CreateContact THEN CreateContactStart(args)
    ELSE IF name = GetCompanies THEN Request("companies.get_all", PyNone)
    ELSE IF name = CreateCompany THEN CreateCompanyStart(args)
    ELSE IF name = GetCompanyActivity THEN ActivityStart(args)
    ELSE Raise("ValueError", "Unknown tool: " \o name)

\* handle_read_resource up to its request to the CRM, or to the ValueError it
\* raises.
ReadResourceStep(uri) ==
    IF uri.scheme # "hubspot"
    THEN Raise("ValueError", "Unsupported URI scheme: " \o uri.scheme)
    ELSE IF uri.path = "hubspot_contacts" THEN Request("contacts.get_all", PyNone)
    ELSE IF uri.path = "hubspot_companies" THEN Request("companies.get_all", PyNone)
    ELSE Raise("ValueError", "Unknown resource path: " \o uri.path)

IsRequest(x) == x.k = "request"

---------------------------------------------------------------------------
(* The server as a state machine: one invocation at a time, each request  *)
(* to the CRM a blocking round trip.                                      *)

MaxLinks == 3
MaxRecords == 2

Tokens == { "", "pat-na1-123" }

ToolNames == { GetContacts, CreateContact, GetCompanies, CreateCompany,
               GetCompanyActivity, "hubspot_delete_contact" }

ContactArgs ==
    LET ada == [firstname |-> PyStr("Ada"), lastname |-> PyStr("Lovelace")] IN
    { PyDict(ada),
      PyDict(ada @@ [email |-> PyStr("ada@x.io")]),
      PyDict(ada @@ [properties |-> EmptyDict]),
      PyDict(ada @@ [properties |-> PyDict([company |-> PyStr("Acme")])]),
      PyDict(ada @@ [properties |-> PyDict([lastname |-> PyStr("Byron")])]),
      PyDict([lastname |-> PyStr("Lovelace")]) }

CompanyArgs ==
    { PyDict([name |-> PyStr("Acme")]),
      PyDict([name |-> PyStr("Globex")]),
      PyDict([name |-> PyStr("Acme"),
              properties |-> PyDict([domain |-> PyStr("acme.io")])]),
      PyDict([name |-> PyStr("Acme"),
              properties |-> PyDict([name |-> PyStr("Globex")])]),
      PyDict([properties |-> PyDict([domain |-> PyStr("acme.io")])]) }

ActivityArgs == { PyDict([company_id |-> PyStr("123")]),
                  PyDict([company_id |-> PyStr("")]) }

\* The argument mappings a client may send with any tool name.
ArgumentSets == { PyNone, EmptyDict } \cup ContactArgs \cup CompanyArgs \cup ActivityArgs

ResourceUris ==
    [ scheme : {"hubspot", "https"},
      path   : {"hubspot_contacts", "hubspot_companies", "hubspot_deals"} ]

EngagementIds == { "e1", "e2", "e3" }

\* The engagements the CRM holds, by id.
Engagement(id) ==
    IF id = "e1"
    THEN PyDict([ engagement |-> PyDict([ id |-> PyStr("e1"), type |-> PyStr("NOTE"),
                                          createdAt |-> PyStr("2024-01-01T00:00:00Z") ]),
                  metadata   |-> PyDict([ body |-> PyStr("hello") ]) ])
    ELSE IF id = "e3"
    THEN PyDict([ engagement |-> PyDict([ id |-> PyStr("e3"), type |-> PyStr("SMS") ]) ])
    ELSE PyDict([ engagement |-> PyDict([ id |-> PyStr(id), type |-> PyStr("EMAIL"),
                                          timestamp |-> PyInt(1703) ]),
                  metadata   |-> PyDict([ subject |-> PyStr("Re: hi"),
                                          html |-> PyStr("<p>H</p>") ]),
                  associations |-> PyDict([ companyIds |-> PyList(<<PyInt(123)>>) ]) ])

\* A body that parses as JSON and is no engagement.
MalformedBody == PyDict([ engagement |-> PyNone ])

\* The sequences over S of length at most n.
SeqsUpTo(S, n) == UNION { [1..m -> S] : m \in 0..n }

\* The association pages the CRM may answer with: no results attribute; a
\* results attribute that is None; up to MaxLinks links, a full page possibly
\* with a cursor to a next one.
Page(has_results, results, paging) ==
    [k |-> "page",
     v |-> [has_results |-> has_results, results |-> results, paging |-> paging]]

Links(ids) == PyList([i \in 1..Len(ids) |-> [to_object_id |-> ids[i]]])

AssocPages ==
    { Page(FALSE, PyNone, FALSE), Page(TRUE, PyNone, FALSE) } \cup
    { Page(TRUE, Links(ids), FALSE) : ids \in SeqsUpTo(EngagementIds, MaxLinks) } \cup
    { Page(TRUE, Links(ids), TRUE) : ids \in [1..MaxLinks -> EngagementIds] }

Init ==
    /\ pc = "start" /\ tool = "" /\ arguments = PyNone
    /\ engagement_ids = <<>> /\ activities = <<>> /\ reqs = <<>>
    /\ outcome = Unset
    /\ crm_contacts = <<>> /\ crm_companies = <<>> /\ created = {}
    /\ NormIdle /\ FormatIdle

\* main(access_token): HubSpotClient raises ValueError on an empty token.
Startup ==
    /\ pc = "start"
    /\ \E access_token \in Tokens :
          IF access_token = ""
          THEN /\ pc' = "exited"
               /\ outcome' = Raise("ValueError",
                    "HubSpot access token is required. It must be provided as an argument.")
          ELSE /\ pc' = "idle"
               /\ outcome' = outcome
    /\ UNCHANGED <<tool, arguments, engagement_ids, activities, reqs,
                   crm_contacts, crm_companies, created,
                   normVars, formatVars>>

\* The handler runs from its entry to its first request, or to its end.
Begin(name, args, first, boundary) ==
    /\ tool' = name
    /\ arguments' = args
    /\ engagement_ids' = <<>>
    /\ activities' = <<>>
    /\ IF IsRequest(first)
       THEN /\ reqs' = <<first>>
            /\ pc' = "waiting"
            /\ outcome' = Unset
       ELSE /\ reqs' = <<>>
            /\ pc' = "done"
            /\ outcome' = boundary
    /\ UNCHANGED <<crm_contacts, crm_companies, created,
                   normVars, formatVars>>

\* handle_call_tool(name, arguments) is entered.
CallTool ==
    /\ pc = "idle"
    /\ \E name \in ToolNames, args \in ArgumentSets :
          LET first == FirstStep(name, args)
          IN  Begin(name, args, first, CallToolExcept(first))

\* handle_read_resource(uri) is entered; it has no try/except.
ReadResource ==
    /\ pc = "idle"
    /\ \E uri \in ResourceUris :
          LET first == ReadResourceStep(uri)
          IN  Begin("read_resource", PyDict(uri), first, first)

\* The handler ends with result r.
Finish(r) ==
    /\ pc' = "done"
    /\ outcome' = r

\* get_all of contacts or companies answers; get_contacts / get_companies
\* returns, and the handler with it.
RespondGetAll ==
    /\ pc = "waiting" /\ Pending
    /\ PendingOp \in {"contacts.get_all", "companies.get_all"}
    /\ \E resp \in (IF PendingOp = "contacts.get_all"
                    THEN ContactsFailures \cup {Records(crm_contacts)}
                    ELSE CompaniesFailures \cup {Records(crm_companies)}) :
          /\ reqs' = Answered(resp)
          /\ LET results == GetAllResult(resp, tz_offset)
             IN  IF tool = "read_resource"
                 THEN Finish(Return(results))
                 ELSE Finish(CallToolExcept(Return(<<TextContent(results)>>)))
    /\ UNCHANGED <<tool, arguments, engagement_ids, activities,
                   crm_contacts, crm_companies, created,
                   normVars, formatVars>>

\* What handle_call_tool returns for the text get_company_activity returned.
ActivityReturn(results) ==
    CallToolExcept(IF IsRaise(results) THEN results
                   ELSE Return(<<TextContent(results)>>))

\* The association page answers: the ids are collected, and the first detail
\* request is issued, or the (empty) list returned, or the error object.
RespondGetPage ==
    /\ pc = "waiting" /\ Pending
    /\ PendingOp = "associations.get_page"
    /\ \E resp \in AssociationsFailures \cup AssocPages :
          LET ids == IF IsRaise(resp) THEN resp ELSE ExtractIds(resp.v) IN
          IF IsRaise(ids)
          THEN /\ reqs' = Answered(resp)
               /\ engagement_ids' = engagement_ids
               /\ Finish(ActivityReturn(ActivityExcept(ids)))
          ELSE IF ids.v = <<>>
          THEN /\ reqs' = Answered(resp)
               /\ engagement_ids' = ids.v
               /\ Finish(ActivityReturn(ActivityExcept(FinishActivity(<<>>, tz_offset))))
          ELSE /\ reqs' = Append(Answered(resp), DetailRequest(ids.v[1]))
               /\ engagement_ids' = ids.v
               /\ pc' = "waiting"
               /\ outcome' = outcome
    /\ UNCHANGED <<tool, arguments, activities,
                   crm_contacts, crm_companies, created,
                   normVars, formatVars>>

\* A detail request answers: the engagement is formatted and appended, and
\* the next detail request issued, or the list normalised, serialised and
\* returned; an exception anywhere gives the error object.
RespondDetail ==
    /\ pc = "waiting" /\ Pending
    /\ PendingOp = "api_request"
    /\ \E resp \in DetailFailures
                   \cup {Engagement(engagement_ids[Len(activities) + 1]), MalformedBody} :
          LET summary == IF IsRaise(resp) THEN resp ELSE FormatEngagement(resp)
              acts    == Append(activities, summary)
          IN
          IF IsRaise(summary)
          THEN /\ reqs' = Answered(resp)
               /\ activities' = activities
               /\ Finish(ActivityReturn(ActivityExcept(summary)))
          ELSE IF Len(acts) = Len(engagement_ids)
          THEN /\ reqs' = Answered(resp)
               /\ activities' = acts
               /\ Finish(ActivityReturn(ActivityExcept(FinishActivity(acts, tz_offset))))
          ELSE /\ reqs' = Append(Answered(resp),
                                 DetailRequest(engagement_ids[Len(acts) + 1]))
               /\ activities' = acts
               /\ pc' = "waiting"
               /\ outcome' = outcome
    /\ UNCHANGED <<tool, arguments, engagement_ids,
                   crm_contacts, crm_companies, created,
                   normVars, formatVars>>

\* The record the CRM returns from create.
Created(record) == [k |-> "record", v |-> record]

\* The search answers: an existing record is returned, or the properties are
\* merged and the create request issued; an exception gives an error text.
RespondSearch ==
    /\ pc = "waiting" /\ Pending
    /\ PendingOp \in {"contacts.search", "companies.search"}
    /\ LET contact  == PendingOp = "contacts.search"
           store    == IF contact THEN crm_contacts ELSE crm_companies
           failures == IF contact THEN ContactsFailures ELSE CompaniesFailures
           exists   == IF contact THEN "Contact already exists: "
                       ELSE "Company already exists: "
       IN
       \E search_response \in failures
                   \cup {SearchResponse(store, reqs[Len(reqs)].arg)} :
          IF IsRaise(search_response)
          THEN /\ reqs' = Answered(search_response)
               /\ Finish(CallToolExcept(CreateExcept(search_response)))
          ELSE IF search_response.v.total > 0
          THEN /\ reqs' = Answered(search_response)
               /\ Finish(CallToolExcept(CreateExcept(Return(<<TextContent(
                     fstring(exists,
                             str_of(to_dict(search_response.v.results[1]))))>>))))
          ELSE /\ reqs' = Append(Answered(search_response),
                            IF contact
                            THEN Request("contacts.create", ContactProperties(arguments))
                            ELSE Request("companies.create", CompanyProperties(arguments)))
               /\ pc' = "waiting"
               /\ outcome' = outcome
    /\ UNCHANGED <<tool, arguments, engagement_ids, activities,
                   crm_contacts, crm_companies, created,
                   normVars, formatVars>>

\* The create answers: the CRM stored the record (while it has room for one)
\* and the handler returns it, or the CRM raised.
RespondCreate ==
    /\ pc = "waiting" /\ Pending
    /\ PendingOp \in {"contacts.create", "companies.create"}
    /\ LET contact  == PendingOp = "contacts.create"
           store    == IF contact THEN crm_contacts ELSE crm_companies
           failures == IF contact THEN ContactsFailures ELSE CompaniesFailures
       IN
       \E api_response \in failures
                   \cup (IF Len(store) < MaxRecords
                         THEN {Created(NewRecord(store, reqs[Len(reqs)].arg))}
                         ELSE {}) :
          /\ reqs' = Answered(api_response)
          /\ IF IsRaise(api_response)
             THEN /\ Finish(CallToolExcept(CreateExcept(api_response)))
                  /\ UNCHANGED <<crm_contacts, crm_companies, created>>
             ELSE /\ Finish(CallToolExcept(CreateExcept(Return(<<TextContent(
                        str_of(to_dict(api_response.v)))>>))))
                  /\ crm_contacts' = IF contact THEN Append(crm_contacts, api_response.v)
                                     ELSE crm_contacts
                  /\ crm_companies' = IF contact THEN crm_companies
                                      ELSE Append(crm_companies, api_response.v)
                  /\ created' = created \cup
                                   {[op |-> PendingOp, filters |-> reqs[1].arg]}
    /\ UNCHANGED <<tool, arguments, engagement_ids, activities, normVars, formatVars>>

\* The transport delivers the handler's response; the server serves again.
Deliver ==
    /\ pc = "done"
    /\ pc' = "idle"
    /\ tool' = "" /\ arguments' = PyNone
    /\ engagement_ids' = <<>> /\ activities' = <<>> /\ reqs' = <<>>
    /\ outcome' = Unset
    /\ UNCHANGED <<crm_contacts, crm_companies, created,
                   normVars, formatVars>>

Next ==
    \/ Startup
    \/ CallTool
    \/ ReadResource
    \/ RespondGetAll
    \/ RespondGetPage
    \/ RespondDetail
    \/ RespondSearch
    \/ RespondCreate
    \/ Deliver

Spec == Init /\ [][Next]_vars

---------------------------------------------------------------------------
(* Properties of the normaliser (checked under SpecNorm) *)

\* C9: temporal normalisation is idempotent: normalising an already normalised
\* value gives that value back, whatever the local offset is at the second call.
C9_NormalizeIdempotent ==
    twice # Unset => twice = once

\* C9 happens: a nested value holding a local-timezone leaf was normalised, the
\* clock changed, and the result was normalised again.
C9_Witness ==
    /\ twice # Unset
    /\ Depth(obj) = MaxDepth
    /\ once # obj
    /\ once # convert_datetime_fields(obj, tz_offset)

\* out has the structure of in: same key set, same length and order, at every
\* depth; timestamp and local-timezone leaves became strings; every other leaf
\* is the same value.
RECURSIVE Preserved(_, _)
Preserved(in, out) ==
    CASE in.k = "dict" ->
            /\ out.k = "dict"
            /\ DOMAIN out.v = DOMAIN in.v
            /\ \A c \in DOMAIN in.v : Preserved(in.v[c], out.v[c])
      [] in.k = "list" ->
            /\ out.k = "list"
            /\ Len(out.v) = Len(in.v)
            /\ \A i \in 1..Len(in.v) : Preserved(in.v[i], out.v[i])
      [] in.k \in {"datetime", "tzlocal"} -> out.k = "str"
      [] OTHER -> out = in

\* C10: the normaliser preserves structure: key sets, lengths and element order
\* at every depth; only timestamp and local-timezone leaves are replaced (by
\* strings), every other scalar leaf is returned unchanged.
C10_StructurePreserved ==
    /\ once # Unset => Preserved(obj, once)
    /\ twice # Unset => Preserved(once, twice)

\* C10 happens: a mapping holding a None entry and a list of two elements, one
\* of them a timestamp or local-timezone leaf, was normalised.
C10_Witness ==
    /\ once # Unset
    /\ once # obj
    /\ obj.k = "dict"
    /\ \E c \in DOMAIN obj.v : obj.v[c] = PyNone
    /\ \E c \in DOMAIN obj.v : obj.v[c].k = "list" /\ Len(obj.v[c].v) = 2

---------------------------------------------------------------------------
(* Properties of get_company_activity (checked under Spec) *)

\* get_company_activity was called and handle_call_tool has ended.
ActivityDone == pc = "done" /\ tool = GetCompanyActivity /\ Len(reqs) > 0

LastReq == reqs[Len(reqs)]

\* The text of the one TextContent the handler returned.
ReturnedText == outcome.v[1].text

\* The association page the invocation got, once it got one.
GotPage == Len(reqs) > 0 /\ reqs[1].op = "associations.get_page"
              /\ reqs[1].resp.k = "page"
ThePage == reqs[1].resp.v

\* The exception that ended the invocation, if one did: raised by the last
\* request (or the parsing of its body), by the iteration over a results
\* attribute that is no list, or by the reading of a body that is no engagement.
Failure ==
    IF IsRaise(LastReq.resp) THEN LastReq.resp
    ELSE IF LastReq.op = "associations.get_page"
            /\ ThePage.has_results /\ ~IsList(ThePage.results)
         THEN Raise("TypeError", "'NoneType' object is not iterable")
    ELSE IF LastReq.op = "api_request" /\ LastReq.resp = MalformedBody
         THEN Raise("AttributeError", "'NoneType' object has no attribute 'get'")
    ELSE Unset

\* C1: get_company_activity never raises past its boundary: when the
\* association request, a detail request or the parsing of its body raises, the
\* result is the JSON object whose only key is "error", with the exception's
\* message, and never a list.
C1_ErrorContained ==
    ActivityDone =>
        /\ outcome.k = "return"
        /\ Len(outcome.v) = 1
        /\ ReturnedText.k = "json"
        /\ ReturnedText.v.k \in {"list", "dict"}
        /\ Failure # Unset =>
              /\ ReturnedText.v.k = "dict"
              /\ DOMAIN ReturnedText.v.v = {"error"}
              /\ ReturnedText.v.v["error"] = PyStr(Failure.v.msg)
              /\ Failure.v.msg # ""

\* C1 happens: a detail request raised an exception that is no ApiException
\* after a summary had been built.
C1_Witness ==
    /\ ActivityDone
    /\ Len(activities) >= 1
    /\ LastReq.op = "api_request"
    /\ IsRaise(LastReq.resp)
    /\ LastReq.resp.v.cls = "ConnectionError"

\* Every request of the invocation succeeded and every body was an engagement.
AllSucceeded ==
    /\ GotPage
    /\ ThePage.has_results /\ IsList(ThePage.results)
    /\ \A i \in 1..Len(reqs) : ~IsRaise(reqs[i].resp) /\ reqs[i].resp # MalformedBody

DetailPath(id) == "/engagements/v1/engagements/" \o id

\* C2: when every request succeeds the returned list has exactly one summary
\* per link of the page, in the order of the links; the i-th summary is built
\* from the detail response for the i-th link's target id; an id in several
\* links gives several summaries.
C2_OneSummaryPerLink ==
    (ActivityDone /\ AllSucceeded) =>
        LET links == ThePage.results.v IN
        /\ outcome.k = "return"
        /\ ReturnedText.k = "json"
        /\ ReturnedText.v.k = "list"
        /\ Len(ReturnedText.v.v) = Len(links)
        /\ Len(reqs) = 1 + Len(links)
        /\ \A i \in 1..Len(links) :
              /\ reqs[i + 1].arg.path = DetailPath(links[i].to_object_id)
              /\ ReturnedText.v.v[i] =
                    convert_datetime_fields(FormatEngagement(reqs[i + 1].resp),
                                            tz_offset)
              /\ ReturnedText.v.v[i].v["id"] = PyStr(links[i].to_object_id)

\* C2 happens: a page of three links, the first and the last to the same
\* engagement, was fetched and every detail request succeeded.
C2_Witness ==
    /\ ActivityDone /\ AllSucceeded
    /\ Len(ThePage.results.v) = 3
    /\ ThePage.results.v[1].to_object_id = "e2"
    /\ ThePage.results.v[2].to_object_id = "e1"
    /\ ThePage.results.v[3].to_object_id = "e2"

\* C3: when the association page has no results, or the response has no
\* results attribute at all, the result is the empty serialized list, not an
\* error object, and no detail request is issued.
C3_ZeroLinks ==
    (ActivityDone /\ GotPage
       /\ (~ThePage.has_results \/ ThePage.results = EmptyList)) =>
        /\ outcome = Return(<<TextContent(json_dumps(EmptyList))>>)
        /\ Len(reqs) = 1

\* C3 happens: the association response had no results attribute.
C3_Witness ==
    /\ ActivityDone /\ GotPage
    /\ ~ThePage.has_results

---------------------------------------------------------------------------
(* Properties of the dispatch boundary and the create flows (checked under Spec) *)

IsCreateTool == tool \in {CreateContact, CreateCompany}

SearchOp == IF tool = CreateContact THEN "contacts.search" ELSE "companies.search"
CreateOp == IF tool = CreateContact THEN "contacts.create" ELSE "companies.create"
TheStore == IF tool = CreateContact THEN crm_contacts ELSE crm_companies

\* The record the search request is about: the keys it filters on.
SearchedFor(record) ==
    IF tool = CreateCompany
    THEN /\ "name" \in DOMAIN record.properties
         /\ record.properties["name"] = arguments.v["name"]
    ELSE /\ \A c \in {"firstname", "lastname"} :
              /\ c \in DOMAIN record.properties
              /\ record.properties[c] = arguments.v[c]
         /\ ( /\ "properties" \in DOMAIN arguments.v
              /\ "company" \in DOMAIN arguments.v["properties"].v )
            => /\ "company" \in DOMAIN record.properties
               /\ record.properties["company"] = arguments.v["properties"].v["company"]

\* The properties the claim has create invoked with: the required fields (and
\* the email, for a contact that has one) merged with the additional
\* properties, an additional property replacing a required field of its name.
MergedProperties ==
    LET required == IF tool = CreateCompany THEN {"name"}
                    ELSE {"firstname", "lastname"} \cup
                         ({"email"} \cap DOMAIN arguments.v)
        extra    == IF "properties" \in DOMAIN arguments.v
                    THEN arguments.v["properties"].v ELSE <<>>
    IN  [c \in required \cup DOMAIN extra |->
            IF c \in DOMAIN extra THEN extra[c] ELSE arguments.v[c]]

\* C7: create_contact and create_company are search-then-create: the search is
\* the first request; after a match the create capability is not invoked and
\* the first matching record is returned; after no match create is invoked
\* exactly once, with the required fields merged with the additional
\* properties; after a search that raised, create is not invoked.
C7_SearchThenCreate ==
    (IsCreateTool /\ pc \in {"waiting", "done"}) =>
        /\ Len(reqs) <= 2
        /\ Len(reqs) >= 1 => reqs[1].op = SearchOp
        /\ Len(reqs) = 2 =>
              /\ reqs[2].op = CreateOp
              /\ reqs[1].resp.k = "found"
              /\ reqs[1].resp.v.total = 0
              /\ reqs[2].arg = MergedProperties
        /\ (Len(reqs) >= 1 /\ reqs[1].resp.k = "found" /\ reqs[1].resp.v.total = 0)
              => Len(reqs) = 2
        /\ (Len(reqs) >= 1 /\ reqs[1].resp.k = "found" /\ reqs[1].resp.v.total > 0) =>
              /\ Len(reqs) = 1
              /\ pc = "done"
              /\ \E i \in 1..Len(TheStore) :
                    /\ SearchedFor(TheStore[i])
                    /\ \A j \in 1..(i - 1) : ~SearchedFor(TheStore[j])
                    /\ outcome.k = "return"
                    /\ ReturnedText.k = "fstr"
                    /\ ReturnedText.v[2] = str_of(to_dict(TheStore[i]))
        /\ (Len(reqs) >= 1 /\ IsRaise(reqs[1].resp)) =>
              /\ Len(reqs) = 1
              /\ pc = "done"

\* C7 happens: a search matched two records (created earlier with an additional
\* property replacing the searched field); the older is returned, none created.
C7_Witness ==
    /\ IsCreateTool /\ pc = "done"
    /\ Len(reqs) = 1
    /\ reqs[1].resp.k = "found"
    /\ reqs[1].resp.v.total = 2
    /\ SearchedFor(TheStore[1]) /\ SearchedFor(TheStore[2])
    /\ ReturnedText.v[2] = str_of(to_dict(TheStore[1]))

\* The handler ended on a failure: a name or arguments it rejects, or a request
\* the CRM raised on. FailureText is the text the failure is reported with.
RejectedMessages ==
    { "Unknown tool: " \o tool,
      "Missing arguments for create_contact", "Missing arguments for create_company",
      "Missing arguments for get_company_activity",
      "'firstname'", "'lastname'", "'name'", "'company_id'" }

ToolFailed == Len(reqs) = 0 \/ IsRaise(LastReq.resp)

IsErrorText(text) ==
    IF Len(reqs) = 0
    THEN text \in { PyStr("Error: " \o m) : m \in RejectedMessages }
    ELSE LET msg == LastReq.resp.v.msg IN
         \/ text = PyStr("Error: " \o msg)
         \/ text = PyStr("HubSpot API error: " \o msg)
         \/ text = json_dumps(PyDict([error |-> PyStr(msg)]))

\* The tool half of C8: handle_call_tool never raises; a failure gives an
\* error text.
ToolHandlerContains ==
    (pc = "done" /\ tool # "read_resource") =>
        /\ outcome.k = "return"
        /\ Len(outcome.v) = 1
        /\ outcome.v[1].type = "text"
        /\ ToolFailed => IsErrorText(ReturnedText)

KnownResource ==
    /\ arguments.v["scheme"] = "hubspot"
    /\ arguments.v["path"] \in {"hubspot_contacts", "hubspot_companies"}

\* C8 as stated: every failure after startup is contained: the tool handler
\* returns an error text for every name, argument mapping and CRM failure, and
\* a resource read with an unknown name does not raise out of its handler; only
\* the startup credential check raises.
C8_AsStated ==
    /\ ToolHandlerContains
    /\ (pc = "done" /\ tool = "read_resource") => outcome.k = "return"
    /\ IsRaise(outcome) => pc = "exited"

\* C8 as amended: the tool handler returns an error text instead of raising for
\* every tool name, argument mapping and CRM failure. handle_read_resource has
\* no try/except: a read of an unknown resource name or of another scheme
\* raises ValueError out of the handler, while a CRM failure during a read of
\* a known resource is returned as an error object. Nothing else raises but
\* the startup credential check.
C8_Containment ==
    /\ ToolHandlerContains
    /\ (pc = "done" /\ tool = "read_resource") =>
          IF KnownResource
          THEN /\ outcome.k = "return"
               /\ outcome.v.k = "json"
               /\ IsRaise(LastReq.resp) =>
                     outcome.v = json_dumps(PyDict([error |-> PyStr(LastReq.resp.v.msg)]))
          ELSE /\ IsRaise(outcome)
               /\ outcome.v.cls = "ValueError"
    /\ IsRaise(outcome) => \/ pc = "exited"
                           \/ pc = "done" /\ tool = "read_resource"
    /\ pc = "exited" => IsRaise(outcome)

\* C8 happens: the companies client raised its own ApiException, which only
\* the catch-all clause contains, during a create_company.
C8_Witness ==
    /\ pc = "done" /\ tool = CreateCompany
    /\ Len(reqs) = 2
    /\ IsRaise(LastReq.resp)
    /\ LastReq.resp.v.cls = CompaniesApiException
    /\ outcome.k = "return"

---------------------------------------------------------------------------
(* Properties of the formatting of one engagement (checked under SpecFormat) *)

\* A summary was built (and not an exception raised).
Emitted == formatted # Unset /\ ~IsRaise(formatted)

\* The sections of the response as the source holds them; RespAbsent stands
\* for a missing key.
RespAbsent == [k |-> "absent", v |-> 0]
Section(name) ==
    IF IsDict(engagement_response) /\ name \in DOMAIN engagement_response.v
    THEN engagement_response.v[name] ELSE RespAbsent
Entry(section, key) ==
    IF IsDict(section) /\ key \in DOMAIN section.v THEN section.v[key] ELSE RespAbsent

RespType == Entry(Section("engagement"), "type")

SharedKeys == { "id", "type", "created_at", "last_updated", "created_by",
                "modified_by", "timestamp", "associations" }

\* The summary fields read from the engagement section, and the key each reads.
EngagementFieldSource ==
    [ id |-> "id", type |-> "type", created_at |-> "createdAt",
      last_updated |-> "lastUpdated", created_by |-> "createdBy",
      modified_by |-> "modifiedBy", timestamp |-> "timestamp" ]

\* The declared content keys of the four keyed types.
DeclaredKeys(t) ==
    CASE t = PyStr("EMAIL")   -> {"subject", "from", "to", "cc", "bcc", "sender", "body"}
      [] t = PyStr("TASK")    -> {"subject", "body", "status", "for_object_type"}
      [] t = PyStr("MEETING") -> {"title", "body", "start_time", "end_time",
                                  "internal_notes"}
      [] t = PyStr("CALL")    -> {"body", "from_number", "to_number", "duration_ms",
                                  "status", "disposition"}

KeyedTypes == KnownTypes \ {PyStr("NOTE")}

\* The keyed part of C4: the four keyed types give exactly their declared keys,
\* and any other type value but NOTE gives the shared fields and no content.
ContentKeysByType ==
    /\ RespType \in KeyedTypes =>
          /\ DOMAIN formatted.v = SharedKeys \cup {"content"}
          /\ IsDict(formatted.v["content"])
          /\ DOMAIN formatted.v["content"].v = DeclaredKeys(RespType)
    /\ RespType \notin KnownTypes => DOMAIN formatted.v = SharedKeys

\* C4 as stated: the content payload of every emitted summary is fully
\* determined by engagement.type: NOTE gives a plain string, the four keyed
\* types exactly their declared keys, any other type value no content key.
C4_AsStated ==
    Emitted =>
        /\ ContentKeysByType
        /\ RespType = PyStr("NOTE") =>
              /\ DOMAIN formatted.v = SharedKeys \cup {"content"}
              /\ IsStr(formatted.v["content"])

\* C4 as amended: the content payload's shape is determined by engagement.type:
\* NOTE gives metadata.body as it is (the empty string when the key is
\* missing, hence a plain string whenever body is a string or missing), the
\* four keyed types exactly their declared keys whatever the metadata holds,
\* any other type value (missing, null, lower case) the shared fields alone.
C4_ContentShapeByType ==
    Emitted =>
        /\ ContentKeysByType
        /\ RespType = PyStr("NOTE") =>
              LET body == Entry(Section("metadata"), "body") IN
              /\ DOMAIN formatted.v = SharedKeys \cup {"content"}
              /\ formatted.v["content"] = IF body = RespAbsent THEN PyStr("") ELSE body
              /\ (body = RespAbsent \/ IsStr(body)) => IsStr(formatted.v["content"])

\* C4 happens: a TASK engagement whose metadata holds the keys of every type
\* was formatted.
C4_Witness ==
    /\ Emitted
    /\ RespType = PyStr("TASK")
    /\ Section("metadata") = PyDict(FullMetadata)

\* C5 as stated: every emitted summary carries the eight shared fields, and a
\* key missing from the detail response yields null for each of them.
C5_AsStated ==
    Emitted =>
        /\ SharedKeys \subseteq DOMAIN formatted.v
        /\ \A f \in DOMAIN EngagementFieldSource :
              Entry(Section("engagement"), EngagementFieldSource[f]) = RespAbsent
                 => formatted.v[f] = PyNone
        /\ Section("associations") = RespAbsent => formatted.v["associations"] = PyNone

\* The present parts of the response have the JSON types the loop body reads
\* them as; keys may be missing anywhere.
WellTyped ==
    /\ IsDict(engagement_response)
    /\ Section("engagement").k \in {"absent", "dict"}
    /\ Section("metadata").k \in {"absent", "dict"}
    /\ \A c \in {"from", "sender"} :
          Entry(Section("metadata"), c).k \in {"absent", "dict"}
    /\ \A c \in {"to", "cc", "bcc"} :
          LET l == Entry(Section("metadata"), c) IN
          \/ l = RespAbsent
          \/ IsList(l) /\ \A i \in 1..Len(l.v) : IsDict(l.v[i])

\* C5 as amended: every emitted summary carries the eight shared fields; each
\* of the seven read from the engagement section is the section's value, and
\* null when the key (or the whole section) is missing; associations is the
\* response's value, and an empty mapping (not null) when the key is missing.
\* A missing key never raises: only an ill-typed present part does.
C5_SharedFields ==
    /\ Emitted =>
        /\ SharedKeys \subseteq DOMAIN formatted.v
        /\ \A f \in DOMAIN EngagementFieldSource :
              LET src == Entry(Section("engagement"), EngagementFieldSource[f]) IN
              formatted.v[f] = IF src = RespAbsent THEN PyNone ELSE src
        /\ formatted.v["associations"] =
              IF Section("associations") = RespAbsent THEN EmptyDict
              ELSE Section("associations")
    /\ (formatted # Unset /\ WellTyped) => ~IsRaise(formatted)

\* C5 happens: a summary was built from a response with no associations key and
\* an engagement section lacking a core field.
C5_Witness ==
    /\ Emitted
    /\ Section("associations") = RespAbsent
    /\ IsDict(Section("engagement"))
    /\ Entry(Section("engagement"), "createdBy") = RespAbsent
    /\ Entry(Section("engagement"), "id") # RespAbsent

EmailEmitted == Emitted /\ RespType = PyStr("EMAIL")

\* C6 as stated: for an EMAIL engagement content.body is metadata.text when
\* text is present and non-empty, otherwise metadata.html, and the empty string
\* (never null, never missing) when neither gives a value.
C6_AsStated ==
    EmailEmitted =>
        LET text == Entry(Section("metadata"), "text")
            html == Entry(Section("metadata"), "html")
            content == formatted.v["content"].v
        IN  /\ "body" \in DOMAIN content
            /\ content["body"] # PyNone
            /\ content["body"] =
                  IF text \notin {RespAbsent, PyNone, PyStr("")} THEN text
                  ELSE IF html \notin {RespAbsent, PyNone} THEN html
                  ELSE PyStr("")

\* C6 as amended: for an EMAIL engagement content.body is metadata.text when
\* text is present and truthy (non-empty, not null); otherwise it is the value
\* under metadata.html whenever that key is present, null included, and the
\* empty string when the html key is missing. The body key is never missing.
C6_EmailBody ==
    EmailEmitted =>
        LET text == Entry(Section("metadata"), "text")
            html == Entry(Section("metadata"), "html")
            content == formatted.v["content"].v
        IN  /\ "body" \in DOMAIN content
            /\ content["body"] =
                  IF text \notin {RespAbsent, PyNone, PyStr("")} THEN text
                  ELSE IF html # RespAbsent THEN html
                  ELSE PyStr("")

\* C6 happens: an EMAIL engagement with an empty text and a non-empty html was
\* formatted, and the body is the html.
C6_Witness ==
    /\ EmailEmitted
    /\ Entry(Section("metadata"), "text") = PyStr("")
    /\ Entry(Section("metadata"), "html") = PyStr("<p>H</p>")
    /\ formatted.v["content"].v["body"] = PyStr("<p>H</p>")

---------------------------------------------------------------------------
(* Properties of the requests of one get_company_activity call (checked   *)
(* under Spec)                                                            *)

\* get_company_activity is running or has ended, and has issued a request.
ActivityCalled == tool = GetCompanyActivity /\ Len(reqs) > 0

\* Request i of the invocation was answered, and neither the answer nor the
\* reading of it raised.
Succeeded(i) ==
    /\ reqs[i].resp # Unset
    /\ ~IsRaise(reqs[i].resp)
    /\ reqs[i].resp # MalformedBody

\* C11: within one get_company_activity invocation the first request is the
\* one association-page request (limit 500, for the given company) and no
\* other page request follows, cursor or not; every later request is the
\* detail request of the link at its position, so the details go out in link
\* order with at most one per link; a request is issued only when every
\* request before it was answered without a failure (one at a time, never a
\* retry); and the handler waits exactly while its last request is unanswered.
C11_RequestOrdering ==
    ActivityCalled =>
        /\ reqs[1].op = "associations.get_page"
        /\ reqs[1].arg.limit = AssocLimit
        /\ reqs[1].arg.object_id = arguments.v.company_id
        /\ \A i \in 2..Len(reqs) :
              /\ reqs[i].op = "api_request"
              /\ reqs[i].arg.method = "GET"
              /\ GotPage /\ ThePage.has_results /\ IsList(ThePage.results)
              /\ i - 1 <= Len(ThePage.results.v)
              /\ reqs[i].arg.path = DetailPath(ThePage.results.v[i - 1].to_object_id)
        /\ \A i \in 1..(Len(reqs) - 1) : Succeeded(i)
        /\ (pc = "waiting") <=> (LastReq.resp = Unset)
        /\ pc \in {"waiting", "done"}

\* C11 happens: a full page that carries a cursor to a next page and links one
\* engagement twice was answered, and the invocation ran to its end with one
\* detail request per link.
C11_Witness ==
    /\ ActivityDone
    /\ AllSucceeded
    /\ ThePage.paging
    /\ Len(reqs) = 1 + Len(ThePage.results.v)
    /\ Len(reqs) >= 4
    /\ ThePage.results.v[1].to_object_id = ThePage.results.v[3].to_object_id
    /\ ThePage.results.v[1].to_object_id # ThePage.results.v[2].to_object_id

\* Detail request i of the invocation failed: the request or the parsing of
\* its body raised, or the body read was no engagement.
DetailFailed(i) ==
    /\ reqs[i].op = "api_request"
    /\ IsRaise(reqs[i].resp) \/ reqs[i].resp = MalformedBody

\* C12: when the detail of the k-th engagement cannot be fetched or read, the
\* whole get_company_activity call ends there: the failed request is the last
\* one the invocation issues (none for a later identifier), the handler has
\* returned, and the text returned is the error object alone (its only key is
\* "error", with the exception's message), holding none of the k-1 summaries
\* built before.
C12_DetailFailureAborts ==
    ActivityCalled =>
        \A k \in 2..Len(reqs) :
            DetailFailed(k) =>
                /\ k = Len(reqs)
                /\ pc = "done"
                /\ Len(activities) = k - 2
                /\ outcome.k = "return"
                /\ Len(outcome.v) = 1
                /\ ReturnedText.k = "json"
                /\ ReturnedText.v.k = "dict"
                /\ DOMAIN ReturnedText.v.v = {"error"}
                /\ ReturnedText.v.v["error"] = PyStr(Failure.v.msg)

\* C12 happens: of three linked engagements the second has a body that is no
\* engagement, after the summary of the first was built.
C12_Witness ==
    /\ ActivityDone
    /\ Len(engagement_ids) = 3
    /\ Len(reqs) = 3
    /\ reqs[3].resp = MalformedBody
    /\ Len(activities) = 1

---------------------------------------------------------------------------
(* Properties of create-or-fetch over successive invocations (checked     *)
(* under Spec)                                                            *)

\* What the running create invocation searched for: the name of a company, or
\* the firstname, lastname and (if given) company of a contact.
SearchKey == [op |-> CreateOp, filters |-> reqs[1].arg]

\* The running create invocation has issued its create request.
CreateIssued == IsCreateTool /\ Pending /\ PendingOp = CreateOp

\* C13: create-or-fetch is idempotent under sequential use: with invocations
\* run one at a time and a search that sees every record the CRM stored, once
\* the create of an invocation was carried out no later invocation searching
\* for the same name (the same firstname, lastname and company) issues a
\* create request; it finds the record and returns it, the CRM unchanged.
C13_AsStated ==
    /\ CreateIssued => SearchKey \notin created
    /\ (IsCreateTool /\ Len(reqs) > 0 /\ reqs[1].resp.k = "found"
            /\ SearchKey \in created /\ Len(reqs) = 1)
          => /\ reqs[1].resp.v.total > 0
             /\ pc = "done"
             /\ ReturnedText.k = "fstr"

\* C13 happens where it holds: an invocation searching for what an earlier
\* invocation created found that one record and returned it.
C13_Witness ==
    /\ IsCreateTool /\ pc = "done" /\ Len(reqs) = 1
    /\ reqs[1].resp.k = "found"
    /\ reqs[1].resp.v.total = 1
    /\ SearchKey \in created

=============================================================================
